---- MODULE Spec2Model ----
(***************************************************************************)
(* The referee-box states of mir_robocup_states (referee_box_states.py):   *)
(* get_basic_transportation_task, get_basic_competitive_task, get_task and *)
(* re_get_task.  A character string is a sequence of one-character         *)
(* strings, so that slicing, splitting and the two regular expressions of  *)
(* the source act on characters exactly as the Python code does.           *)
(***************************************************************************)
EXTENDS Integers, Sequences, FiniteSets, TLC

VARIABLES
    refbox_task,     \* the task the referee box serves (its text is Render(refbox_task))
    task_list,       \* userdata.task_list
    task_list_in,    \* userdata.task_list as it was when the last execute was entered
    received,        \* the string the last execute got from obtainTaskSpecFromServer
    state,           \* the smach state whose execute ran last ("none" before the first)
    outcome,         \* what that execute ended with: an outcome, or the exception raised
    runs,            \* number of executes so far
    successes,       \* number of executes so far that returned 'task_received'
    test,            \* userdata.test
    simulation,      \* userdata.simulation
    task,            \* userdata.task
    task_spec_copy,  \* userdata.task_spec_copy
    parsed_spec,     \* the string last handed to tasks.parse_task
    server_calls     \* number of calls of obtainTaskSpecFromServer made by get_task

vars == <<refbox_task, task_list, task_list_in, received, state, outcome, runs,
          successes, test, simulation, task, task_spec_copy, parsed_spec, server_calls>>

(***************************************************************************)
(* Bounds of the model.                                                    *)
(***************************************************************************)
MaxEntries == 3
MaxRuns == 3

(***************************************************************************)
(* Literals of the source.                                                 *)
(***************************************************************************)
BTT == <<"B", "T", "T">>
CTT == <<"C", "T", "T">>
BNT == <<"B", "N", "T">>
BMT == <<"B", "M", "T">>
PPT == <<"P", "P", "T">>
initialsituation == <<"i", "n", "i", "t", "i", "a", "l", "s", "i", "t", "u", "a", "t", "i", "o", "n">>
goalsituation == <<"g", "o", "a", "l", "s", "i", "t", "u", "a", "t", "i", "o", "n">>
V20 == <<"V", "2", "0">>
R20 == <<"R", "2", "0">>
TagLen == 3
InitLabelLen == 16
GoalLabelLen == 13
LocLen == 2
ObjStart == 3

(***************************************************************************)
(* Python string operations.                                               *)
(***************************************************************************)
\* s[a:b] for 0 <= a, 0 <= b: the end is clamped to len(s).
Slice(s, a, b) == SubSeq(s, a + 1, IF b < Len(s) THEN b ELSE Len(s))

\* s[a:len(s)]
From(s, a) == SubSeq(s, a + 1, Len(s))

\* The 1-based position of the first c in s at or after position i, 0 when none.
RECURSIVE Find(_, _, _)
Find(s, c, i) ==
    IF i > Len(s) THEN 0
    ELSE IF s[i] = c THEN i
    ELSE Find(s, c, i + 1)

\* s.split(sep), sep a single character.
RECURSIVE SplitFrom(_, _, _)
SplitFrom(s, sep, i) ==
    LET j == Find(s, sep, i)
    IN  IF j = 0 THEN <<SubSeq(s, i, Len(s))>>
        ELSE <<SubSeq(s, i, j - 1)>> \o SplitFrom(s, sep, j + 1)

Split(s, sep) == SplitFrom(s, sep, 1)

\* re.findall('\<(?P<name>.*?)\>', s) and re.findall('\((?P<name>.*?)\)', s):
\* the leftmost open, the first close after it, then on from behind that close.
RECURSIVE FindAllFrom(_, _, _, _)
FindAllFrom(s, open, close, i) ==
    LET a == Find(s, open, i)
    IN  IF a = 0 THEN <<>>
        ELSE LET b == Find(s, close, a + 1)
             IN  IF b = 0 THEN <<>>
                 ELSE <<SubSeq(s, a + 1, b - 1)>> \o FindAllFrom(s, open, close, b + 1)

FindAll(s, open, close) == FindAllFrom(s, open, close, 1)

(***************************************************************************)
(* get_basic_transportation_task.execute and                               *)
(* get_basic_competitive_task.execute.  Each operator returns              *)
(* [out, list]: how the execute ended (an outcome, or the name of the      *)
(* exception that left it) and userdata.task_list at that moment; the      *)
(* list is mutated in place, so records appended before an early return    *)
(* or an exception stay in it.                                             *)
(***************************************************************************)
\* HasTag with the tag of the transportation task in both states: the check of
\* get_basic_competitive_task copied from get_basic_transportation_task unchanged.
HasTagOfTransportation(s, tag) == Slice(s, 0, TagLen) = BTT

\* The comparison of the first three characters with the task tag.
HasTag(s, tag) == Slice(s, 0, TagLen) = tag

\* "<" at the front and ">" at the end; s is not empty.
HasEnvelope(s) == s[1] = "<" /\ s[Len(s)] = ">"

\* for i in range(len(objs)): if objs[i] == "V20": objs[i] = "R20"
ReplaceAlias(objs) == [i \in DOMAIN objs |-> IF objs[i] = V20 THEN R20 ELSE objs[i]]

\* AppendRecord with list.insert(0, record) in place of list.append(record).
InsertRecord(list, record) == <<record>> \o list

\* AppendRecord with userdata.task_list = [record] in place of the append.
AssignRecord(list, record) == <<record>>

\* userdata.task_list.append(record)
AppendRecord(list, record) == Append(list, record)

\* The Bunch built for an entry of the initial situation.
SourceRecord(desired_loc, objs) ==
    [type |-> "source", location |-> desired_loc, object_names |-> objs]

\* The Bunch built for an entry of the goal situation.
DestinationRecord(desired_loc, objs, obj_conf) ==
    [type |-> "destination", location |-> desired_loc, object_names |-> objs,
     object_config |-> obj_conf]

\* The loops over init_tasks (role "source") and goal_tasks (role "destination").
RECURSIVE TransportationItems(_, _, _, _)
TransportationItems(items, i, list, role) ==
    IF i > Len(items) THEN [exc |-> "none", list |-> list]
    ELSE LET item == items[i]
             desired_loc == Slice(item, 0, LocLen)
             obj_taskspec == From(item, ObjStart)
             groups == FindAll(obj_taskspec, "(", ")")
         IN  IF groups = <<>> THEN [exc |-> "IndexError", list |-> list]
             ELSE LET objs == ReplaceAlias(Split(groups[1], ","))
                      obj_conf == Split(obj_taskspec, "(")[1]
                      record == IF role = "source"
                                THEN SourceRecord(desired_loc, objs)
                                ELSE DestinationRecord(desired_loc, objs, obj_conf)
                  IN  TransportationItems(items, i + 1, AppendRecord(list, record), role)

TransportationExecute(list, spec) ==
    IF ~HasTag(spec, BTT) THEN [out |-> "wrong_task_format", list |-> list]
    ELSE LET transportation_task == From(spec, TagLen)
         IN
    IF transportation_task = <<>> THEN [out |-> "IndexError", list |-> list]
    ELSE IF ~HasEnvelope(transportation_task)
    THEN [out |-> "wrong_task_format", list |-> list]
    ELSE LET task_situation ==
                 Split(Slice(transportation_task, 1, Len(transportation_task) - 1), ";")
             initial_situation == task_situation[1]
         IN
    IF Slice(initial_situation, 0, InitLabelLen) # initialsituation
    THEN [out |-> "wrong_task_format", list |-> list]
    ELSE LET init_tasks == FindAll(From(initial_situation, InitLabelLen), "<", ">")
             after_init == TransportationItems(init_tasks, 1, list, "source")
         IN
    IF after_init.exc # "none" THEN [out |-> after_init.exc, list |-> after_init.list]
    ELSE IF Len(task_situation) < 2 THEN [out |-> "IndexError", list |-> after_init.list]
    ELSE LET goal_situation == task_situation[2]
         IN
    IF Slice(goal_situation, 0, GoalLabelLen) # goalsituation
    THEN [out |-> "wrong_task_format", list |-> after_init.list]
    ELSE LET goal_tasks == FindAll(From(goal_situation, GoalLabelLen), "<", ">")
             after_goal == TransportationItems(goal_tasks, 1, after_init.list, "destination")
         IN
    IF after_goal.exc # "none" THEN [out |-> after_goal.exc, list |-> after_goal.list]
    ELSE [out |-> "task_received", list |-> after_goal.list]

\* The Bunch built by get_basic_competitive_task for an entry of either situation.
CompetitiveRecord(desired_loc, base_orientation, what, objs, obj_conf) ==
    [location |-> desired_loc, orientation |-> base_orientation, task |-> what,
     object_names |-> objs, object_config |-> obj_conf]

\* if item[0] == "D": "W"; elif item[0] == "S": "E"; otherwise the local variable
\* keeps what it had ("unbound" while nothing was ever assigned to it).
BaseOrientation(item, base_orientation) ==
    IF item[1] = "D" THEN "W"
    ELSE IF item[1] = "S" THEN "E"
    ELSE base_orientation

\* The two loops of get_basic_competitive_task.execute; base_orientation is one
\* local variable of the function and lives across iterations and across both loops.
RECURSIVE CompetitiveItems(_, _, _, _, _)
CompetitiveItems(items, i, list, what, base_orientation) ==
    IF i > Len(items)
    THEN [exc |-> "none", list |-> list, base_orientation |-> base_orientation]
    ELSE LET item == items[i]
         IN
    IF item = <<>>
    THEN [exc |-> "IndexError", list |-> list, base_orientation |-> base_orientation]
    ELSE LET desired_loc == Slice(item, 0, LocLen)
             orientation == BaseOrientation(item, base_orientation)
             obj_taskspec == From(item, ObjStart)
             groups == FindAll(obj_taskspec, "(", ")")
         IN
    IF groups = <<>>
    THEN [exc |-> "IndexError", list |-> list, base_orientation |-> orientation]
    ELSE IF orientation = "unbound"
    THEN [exc |-> "UnboundLocalError", list |-> list, base_orientation |-> orientation]
    ELSE LET objs == Split(groups[1], ",")
             obj_conf == Split(obj_taskspec, "(")[1]
             record == CompetitiveRecord(desired_loc, orientation, what, objs, obj_conf)
         IN  CompetitiveItems(items, i + 1, AppendRecord(list, record), what, orientation)

CompetitiveExecute(list, spec) ==
    IF ~HasTag(spec, CTT) THEN [out |-> "wrong_task_format", list |-> list]
    ELSE LET competitive_task == From(spec, TagLen)
         IN
    IF competitive_task = <<>> THEN [out |-> "IndexError", list |-> list]
    ELSE IF ~HasEnvelope(competitive_task)
    THEN [out |-> "wrong_task_format", list |-> list]
    ELSE LET task_situation ==
                 Split(Slice(competitive_task, 1, Len(competitive_task) - 1), ";")
             initial_situation == task_situation[1]
         IN
    IF Slice(initial_situation, 0, InitLabelLen) # initialsituation
    THEN [out |-> "wrong_task_format", list |-> list]
    ELSE LET init_tasks == FindAll(From(initial_situation, InitLabelLen), "<", ">")
             after_init == CompetitiveItems(init_tasks, 1, list,
                                            "fetch object workspace", "unbound")
         IN
    IF after_init.exc # "none" THEN [out |-> after_init.exc, list |-> after_init.list]
    ELSE IF Len(task_situation) < 2 THEN [out |-> "IndexError", list |-> after_init.list]
    ELSE LET goal_situation == task_situation[2]
         IN
    IF Slice(goal_situation, 0, GoalLabelLen) # goalsituation
    THEN [out |-> "wrong_task_format", list |-> after_init.list]
    ELSE LET goal_tasks == FindAll(From(goal_situation, GoalLabelLen), "<", ">")
             after_goal == CompetitiveItems(goal_tasks, 1, after_init.list,
                                            "place object in workspace",
                                            after_init.base_orientation)
         IN
    IF after_goal.exc # "none" THEN [out |-> after_goal.exc, list |-> after_goal.list]
    ELSE [out |-> "task_received", list |-> after_goal.list]

(***************************************************************************)
(* The referee box.  It serves one task for the whole run; the task is     *)
(* kept in its structure [tag, envelope, fields], and what                 *)
(* obtainTaskSpecFromServer returns is its text, Render(refbox_task).      *)
(* A field is [label, paren, entries]; an entry is [kind, loc, conf, objs].*)
(***************************************************************************)
RECURSIVE Join(_, _)
Join(parts, sep) ==
    IF parts = <<>> THEN <<>>
    ELSE IF Len(parts) = 1 THEN parts[1]
    ELSE parts[1] \o sep \o Join(Tail(parts), sep)

RenderEntry(e) ==
    IF e.kind = "empty" THEN <<"<", ">">>
    ELSE <<"<">> \o e.loc \o <<",">> \o e.conf
         \o (IF e.kind = "full" THEN <<"(">> \o Join(e.objs, <<",">>) \o <<")">> ELSE <<>>)
         \o <<">">>

RenderField(f) ==
    IF f.paren
    THEN f.label \o <<"(">> \o Join([i \in DOMAIN f.entries |-> RenderEntry(f.entries[i])], <<>>)
         \o <<")">>
    ELSE f.label

Render(t) ==
    LET body == Join([i \in DOMAIN t.fields |-> RenderField(t.fields[i])], <<";">>)
    IN  CASE t.envelope = "both" -> t.tag \o <<"<">> \o body \o <<">">>
          [] t.envelope = "open" -> t.tag \o <<"<">> \o body
          [] t.envelope = "none" -> t.tag

M20 == <<"M", "2", "0">>
S1 == <<"S", "1">>
S2 == <<"S", "2">>
D1 == <<"D", "1">>
T3 == <<"T", "3">>
line == <<"l", "i", "n", "e">>
wrongsituation == <<"w", "r", "o", "n", "g", "s", "i", "t", "u", "a", "t", "i", "o", "n">>

EntryS1 == [kind |-> "full", loc |-> S1, conf |-> <<>>, objs |-> <<V20, M20>>]
EntryD1 == [kind |-> "full", loc |-> D1, conf |-> line, objs |-> <<M20, V20>>]
EntryT3 == [kind |-> "full", loc |-> T3, conf |-> <<>>, objs |-> <<R20>>]
EntryNoGroup == [kind |-> "nogroup", loc |-> S2, conf |-> line, objs |-> <<>>]
EntryEmpty == [kind |-> "empty", loc |-> <<>>, conf |-> <<>>, objs |-> <<>>]

Entries == {EntryS1, EntryD1, EntryT3, EntryNoGroup}

EntrySeqs == UNION {[1..n -> Entries] : n \in 0..MaxEntries}

Situation(label, entries) == [label |-> label, paren |-> TRUE, entries |-> entries]

\* Tasks of the shape of the example in the source: two situations, their labels
\* right, with up to MaxEntries entries shared out between them.
ShapedTasks ==
    {[tag |-> tag, envelope |-> "both",
      fields |-> <<Situation(initialsituation, SubSeq(es, 1, k)),
                   Situation(goalsituation, SubSeq(es, k + 1, Len(es)))>>] :
        <<tag, es, k>> \in {x \in {BTT, CTT} \X EntrySeqs \X (0..MaxEntries) :
                                x[3] <= Len(x[2])}}

\* Envelope bodies that are not of that shape: no field, one field, three fields,
\* a wrong label in front of either situation, an entry with nothing in it.
OddFields ==
    {<<>>,
     <<Situation(initialsituation, <<>>)>>,
     <<Situation(initialsituation, <<EntryS1>>)>>,
     <<Situation(initialsituation, <<EntryS1>>), Situation(goalsituation, <<EntryD1>>),
       [label |-> <<"x">>, paren |-> FALSE, entries |-> <<>>]>>,
     <<Situation(wrongsituation, <<EntryS1>>), Situation(goalsituation, <<EntryD1>>)>>,
     <<Situation(initialsituation, <<EntryS1>>), Situation(wrongsituation, <<EntryD1>>)>>,
     <<Situation(initialsituation, <<EntryEmpty>>), Situation(goalsituation, <<EntryD1>>)>>,
     <<Situation(initialsituation, <<EntryS1>>), Situation(goalsituation, <<EntryD1>>)>>}

OddTasks ==
    {[tag |-> tag, envelope |-> envelope, fields |-> fields] :
        tag \in {BTT, CTT, BNT, <<"B", "T">>, <<>>},
        envelope \in {"both", "open", "none"},
        fields \in OddFields}

RefboxTasks == ShapedTasks \cup OddTasks

\* What userdata.task_list may hold when the first of the two states is entered:
\* nothing, or a record an earlier state of the scenario has put there.
InitialLists ==
    {<<>>, <<[type |-> "source", location |-> S2, object_names |-> <<M20>>]>>}

(***************************************************************************)
(* The executes of the two states as steps.                                *)
(***************************************************************************)
OtherUserdataUnchanged == UNCHANGED <<test, simulation, task, task_spec_copy, parsed_spec,
                                      server_calls>>

Executed(name, result, spec) ==
    /\ received' = spec
    /\ state' = name
    /\ outcome' = result.out
    /\ task_list_in' = task_list
    /\ task_list' = result.list
    /\ successes' = IF result.out = "task_received" THEN successes + 1 ELSE successes
    /\ runs' = runs + 1
    /\ UNCHANGED refbox_task

get_basic_transportation_task ==
    /\ runs < MaxRuns
    /\ LET transportation_task == Render(refbox_task)
       IN  Executed("get_basic_transportation_task",
                    TransportationExecute(task_list, transportation_task),
                    transportation_task)
    /\ OtherUserdataUnchanged

get_basic_competitive_task ==
    /\ runs < MaxRuns
    /\ LET competitive_task == Render(refbox_task)
       IN  Executed("get_basic_competitive_task",
                    CompetitiveExecute(task_list, competitive_task),
                    competitive_task)
    /\ OtherUserdataUnchanged

(***************************************************************************)
(* get_task and re_get_task.  The names referee_box_communication and      *)
(* tasks, which the source uses without binding them, stand for the        *)
(* modules of mir_robocup_states_common.                                   *)
(***************************************************************************)
HardcodedBNT ==
    <<"B", "N", "T", "<", "(", "D", ",", "W", ",", "3", ")", ",", "(", "S", "1", ",", "E",
    ",", "3", ")", ",", "(", "T", "3", ",", "N", ",", "3", ")", ",", "(", "S", "3", ",", "S",
    ",", "3", ")", ",", "(", "T", "1", ",", "S", ",", "3", ")", ",", "(", "D", "1", ",", "E",
    ",", "3", ")", ",", "(", "S", "4", ",", "N", ",", "3", ")", ",", "(", "S", "5", ",", "N",
    ",", "3", ")", ",", "(", "T", "4", ",", "W", ",", "3", ")", ",", "(", "T", "2", ",", "S",
    ",", "3", ")", ",", "(", "S", "2", ",", "E", ",", "3", ")", ",", "(", "E", "X", "I", "T",
    ",", "E", ",", "3", ")", ">">>
HardcodedBMT ==
    <<"B", "M", "T", "<", "D", "1", ",", "D", "1", ",", "D", "1", ",", "l", "i", "n", "e",
    "(", "F", "2", "0", "_", "2", "0", "_", "B", ",", "R", "2", "0", ",", "M", "2", "0", "_",
    "1", "0", "0", ")", ",", "D", "1", ">">>
HardcodedBTT ==
    <<"B", "T", "T", "<", "i", "n", "i", "t", "i", "a", "l", "s", "i", "t", "u", "a", "t",
    "i", "o", "n", "(", "<", "S", "1", ",", "(", "M", "2", "0", "_", "1", "0", "0", ",", "S",
    "4", "0", "_", "4", "0", "_", "G", ")", ">", "<", "S", "2", ",", "(", "F", "2", "0", "_",
    "2", "0", "_", "G", ",", "S", "4", "0", "_", "4", "0", "_", "B", ",", "F", "2", "0", "_",
    "2", "0", "_", "B", ")", ">", ")", ";", "g", "o", "a", "l", "s", "i", "t", "u", "a", "t",
    "i", "o", "n", "(", "<", "S", "3", ",", "l", "i", "n", "e", "(", "S", "4", "0", "_", "4",
    "0", "_", "G", ",", "F", "2", "0", "_", "2", "0", "_", "G", ")", ">", "<", "D", "1", ",",
    "z", "i", "g", "z", "a", "g", "(", "F", "2", "0", "_", "2", "0", "_", "B", ",", "S", "4",
    "0", "_", "4", "0", "_", "B", ",", "M", "2", "0", "_", "1", "0", "0", ")", ">", ")", ">">>
HardcodedPPT ==
    <<"P", "P", "T", "<", "S", "6", ",", "S", "5", ">">>

\* The keys of the dictionary HARDCODED_SPECS, and the dictionary.
HardcodedTests == {"BNT", "BMT", "BTT", "PPT"}

HARDCODED_SPECS(t) ==
    CASE t = "BNT" -> HardcodedBNT
      [] t = "BMT" -> HardcodedBMT
      [] t = "BTT" -> HardcodedBTT
      [] t = "PPT" -> HardcodedPPT

\* The test types of the docstring and of the task-type enumeration.
Tests == {"BNT", "BMT", "BTT", "CTT", "PPT"}

TagOf(t) ==
    CASE t = "BNT" -> BNT
      [] t = "BMT" -> BMT
      [] t = "BTT" -> BTT
      [] t = "CTT" -> CTT
      [] t = "PPT" -> PPT

\* A userdata key nothing has been stored under, and userdata.task before any parse.
NoValue == <<"no value">>
NoTask == [task_type |-> "none", payload |-> <<>>]

\* tasks.parse_task(test, task_spec): the envelope check of the parser (the tag of
\* the declared type, then "<" ... ">"); the Task is the declared type with the body.
\* ok = FALSE stands for TaskSpecFormatError.
ParseTask(t, task_spec) ==
    LET rest == From(task_spec, TagLen)
    IN  IF Slice(task_spec, 0, TagLen) # TagOf(t) THEN [ok |-> FALSE, task |-> NoTask]
        ELSE IF rest = <<>> \/ rest[1] # "<" \/ rest[Len(rest)] # ">"
        THEN [ok |-> FALSE, task |-> NoTask]
        ELSE [ok |-> TRUE,
              task |-> [task_type |-> t, payload |-> Slice(rest, 1, Len(rest) - 1)]]

\* The keys each state declares as output (io_keys are input and output keys).
OutputKeys(name) ==
    CASE name = "get_task" -> {"task"}
      [] name = "re_get_task" -> {"task", "task_spec_copy"}

\* userdata.<key> = new inside the execute of state `name`.  For a key the state
\* declared, the value is stored.  For a key it did not declare, the userdata
\* proxy of a smach container refuses the write (kept = TRUE: the old value
\* stays), while a bare userdata object stores it (kept = FALSE).
WriteKey(name, key, old, new, kept) ==
    IF key \in OutputKeys(name) \/ ~kept THEN new ELSE old

TaskListUnchanged == UNCHANGED <<task_list, task_list_in, successes>>

Parsed(name, task_spec) ==
    LET parsed == ParseTask(test, task_spec)
    IN  /\ parsed_spec' = task_spec
        /\ task' = IF parsed.ok THEN WriteKey(name, "task", task, parsed.task, TRUE) ELSE task
        /\ outcome' = IF parsed.ok THEN "task_received" ELSE "wrong_task_format"

Raised(name, exception) ==
    /\ state' = name
    /\ outcome' = exception
    /\ runs' = runs + 1
    /\ UNCHANGED <<refbox_task, received, test, simulation, task, task_spec_copy,
                   parsed_spec, server_calls>>

get_task ==
    /\ runs < MaxRuns
    /\ TaskListUnchanged
    /\ IF simulation /\ test \notin HardcodedTests
       THEN Raised("get_task", "KeyError")
       ELSE LET task_spec == IF simulation THEN HARDCODED_SPECS(test)
                             ELSE Render(refbox_task)
            IN  /\ state' = "get_task"
                /\ runs' = runs + 1
                /\ received' = IF simulation THEN received ELSE task_spec
                /\ server_calls' = IF simulation THEN server_calls ELSE server_calls + 1
                /\ \E kept \in BOOLEAN :
                       task_spec_copy' = WriteKey("get_task", "task_spec_copy",
                                                  task_spec_copy, task_spec, kept)
                /\ Parsed("get_task", task_spec)
                /\ UNCHANGED <<refbox_task, test, simulation>>

re_get_task ==
    /\ runs < MaxRuns
    /\ TaskListUnchanged
    /\ IF task_spec_copy = NoValue
       THEN Raised("re_get_task", "KeyError")
       ELSE /\ state' = "re_get_task"
            /\ runs' = runs + 1
            /\ Parsed("re_get_task", task_spec_copy)
            /\ UNCHANGED <<refbox_task, received, test, simulation, task_spec_copy,
                           server_calls>>

RawTask(tag, envelope, text) ==
    [tag |-> tag, envelope |-> envelope,
     fields |-> <<[label |-> text, paren |-> FALSE, entries |-> <<>>]>>]

\* The tasks the referee box may serve to get_task.
GetTaskTasks ==
    {RawTask(PPT, "both", <<"S", "6", ",", "S", "5">>),
     RawTask(PPT, "open", <<"S", "6", ",", "S", "5">>),
     RawTask(PPT, "both", <<"S", "1", ",", "D", "1">>),
     RawTask(BNT, "both", <<"(", "D", ",", "W", ",", "3", ")">>),
     RawTask(BMT, "both", <<"D", "1", ",", "l", "i", "n", "e", "(", "R", "2", "0", ")">>),
     RawTask(BTT, "none", <<>>),
     [tag |-> BTT, envelope |-> "both",
      fields |-> <<Situation(initialsituation, <<EntryS1>>),
                   Situation(goalsituation, <<EntryD1>>)>>],
     [tag |-> CTT, envelope |-> "both",
      fields |-> <<Situation(initialsituation, <<EntryS1>>),
                   Situation(goalsituation, <<EntryD1>>)>>]}

\* userdata as the scenario hands it to get_task: task_spec_copy holds nothing
\* yet, or the specification an earlier round has left there.
InitRefbox ==
    /\ refbox_task \in GetTaskTasks
    /\ test \in Tests
    /\ simulation \in BOOLEAN
    /\ task = NoTask
    /\ task_spec_copy \in {NoValue, HardcodedPPT}
    /\ parsed_spec = NoValue
    /\ server_calls = 0
    /\ task_list = <<>>
    /\ task_list_in = <<>>
    /\ received = <<>>
    /\ state = "none"
    /\ outcome = "none"
    /\ runs = 0
    /\ successes = 0

NextRefbox == get_task \/ re_get_task

SpecRefbox == InitRefbox /\ [][NextRefbox]_vars

Init ==
    /\ refbox_task \in RefboxTasks
    /\ task_list \in InitialLists
    /\ task_list_in = task_list
    /\ received = <<>>
    /\ state = "none"
    /\ outcome = "none"
    /\ runs = 0
    /\ successes = 0
    /\ test = "BTT"
    /\ simulation = FALSE
    /\ task = NoTask
    /\ task_spec_copy = NoValue
    /\ parsed_spec = NoValue
    /\ server_calls = 0

Next == get_basic_transportation_task \/ get_basic_competitive_task

Spec == Init /\ [][Next]_vars

(***************************************************************************)
(* The claims.                                                             *)
(***************************************************************************)
TaskListStates == {"get_basic_transportation_task", "get_basic_competitive_task"}

DeclaredOutcomes == {"task_received", "wrong_task_format"}

\* The tag the state checks for.
TagFor(name) == IF name = "get_basic_transportation_task" THEN BTT ELSE CTT

\* s begins with the characters of p.
StartsWith(s, p) == Len(s) >= Len(p) /\ \A i \in 1..Len(p) : s[i] = p[i]

\* The records the last execute has added to task_list.
Appended == SubSeq(task_list, Len(task_list_in) + 1, Len(task_list))

\* s is the tag, "<", a body, ">": the body.
InEnvelope(s, tag) ==
    /\ StartsWith(s, tag)
    /\ Len(s) >= Len(tag) + 2
    /\ s[Len(tag) + 1] = "<"
    /\ s[Len(s)] = ">"

EnvelopeBody(s, tag) == SubSeq(s, Len(tag) + 2, Len(s) - 1)

\* The alias table: the deprecated V20 stands for R20.
CanonicalName(n) == IF n = V20 THEN R20 ELSE n

\* C1: whenever the execute of get_basic_transportation_task or of
\* get_basic_competitive_task returns 'wrong_task_format', userdata.task_list is
\* exactly what it was before the call.
C1_FailedParseLeavesTaskList ==
    (state \in TaskListStates /\ outcome = "wrong_task_format")
        => task_list = task_list_in

\* C2: every execute of the two states ends by returning 'task_received' or
\* 'wrong_task_format', never by an exception that leaves it.
C2_OnlyDeclaredOutcomes ==
    state \in TaskListStates => outcome \in DeclaredOutcomes

\* C3: for a received string that does not start with the tag of the state's
\* task type, the execute returns 'wrong_task_format' and appends nothing.
C3_MalformedPrefix ==
    (state \in TaskListStates /\ ~StartsWith(received, TagFor(state)))
        => (outcome = "wrong_task_format" /\ task_list = task_list_in)

C3_Witness ==
    /\ state = "get_basic_transportation_task"
    /\ InEnvelope(received, CTT)
    /\ refbox_task \in ShapedTasks
    /\ Len(refbox_task.fields[1].entries) > 0
    /\ outcome = "wrong_task_format"

\* C4: an input whose envelope body splits on ';' into other than exactly two
\* fields is answered with 'wrong_task_format'.
C4_FieldCount ==
    (/\ state \in TaskListStates
     /\ InEnvelope(received, TagFor(state))
     /\ Len(Split(EnvelopeBody(received, TagFor(state)), ";")) # 2)
        => outcome = "wrong_task_format"

\* C5: after a successful parse by either state no object name stored by it is
\* the deprecated token V20.
C5_NoDeprecatedName ==
    (state \in TaskListStates /\ outcome = "task_received")
        => \A i \in DOMAIN Appended :
               \A j \in DOMAIN Appended[i].object_names :
                   Appended[i].object_names[j] # V20

\* C6: get_basic_competitive_task stores no placement record for an entry whose
\* location code starts with a character other than D and S.
C6_UnmappedOrientation ==
    state = "get_basic_competitive_task"
        => \A i \in DOMAIN Appended : Appended[i].location[1] \in {"D", "S"}

\* C7: on a successful parse by get_basic_transportation_task the records
\* appended are one per entry of field 0, tagged source, in the order of the
\* text, followed by one per entry of field 1, tagged destination, in the order
\* of the text; record i of a group is determined by entry i of that group alone,
\* so a permutation of the entries permutes the records alike.  The entries are
\* those the referee box rendered the text from; their location codes have two
\* characters.
ExpectedSource(e) ==
    [type |-> "source", location |-> e.loc,
     object_names |-> [j \in DOMAIN e.objs |-> CanonicalName(e.objs[j])]]

ExpectedDestination(e) ==
    [type |-> "destination", location |-> e.loc,
     object_names |-> [j \in DOMAIN e.objs |-> CanonicalName(e.objs[j])],
     object_config |-> e.conf]

C7_OrderAndRole ==
    (state = "get_basic_transportation_task" /\ outcome = "task_received")
        => LET initial == refbox_task.fields[1].entries
               goal == refbox_task.fields[2].entries
           IN  /\ Len(Appended) = Len(initial) + Len(goal)
               /\ \A i \in DOMAIN initial : Appended[i] = ExpectedSource(initial[i])
               /\ \A i \in DOMAIN goal :
                      Appended[Len(initial) + i] = ExpectedDestination(goal[i])

C7_Witness ==
    /\ state = "get_basic_transportation_task"
    /\ outcome = "task_received"
    /\ refbox_task.fields[1].entries = <<EntryD1, EntryS1>>
    /\ refbox_task.fields[2].entries = <<EntryT3>>
    /\ Len(Appended) = 3
    /\ Appended[1].location = D1
    /\ Appended[2].location = S1
    /\ Appended[3].type = "destination"

\* C10: every execute of the two states leaves the records already in task_list
\* in place (the old list is a prefix of the new one), and after n successful
\* executes on one specification the list ends with n copies of the records of
\* that specification.
C10_AppendOnly ==
    /\ Len(task_list_in) <= Len(task_list)
    /\ SubSeq(task_list, 1, Len(task_list_in)) = task_list_in
    /\ outcome = "task_received"
           => /\ Len(task_list) >= successes * Len(Appended)
              /\ \A c \in 1..successes :
                     SubSeq(task_list, Len(task_list) - c * Len(Appended) + 1,
                            Len(task_list) - (c - 1) * Len(Appended)) = Appended

C10_Witness ==
    /\ successes = 3
    /\ outcome = "task_received"
    /\ Len(Appended) = 2
    /\ Len(task_list) = 7

\* C8: re_get_task run after get_task parses the string get_task obtained,
\* without a call to the referee box, returns the outcome get_task returned and
\* stores the task get_task stored.
C8_ReparseSameAsParse ==
    [][(state = "get_task" /\ outcome \in DeclaredOutcomes /\ state' = "re_get_task")
           => /\ parsed_spec' = parsed_spec
              /\ outcome' = outcome
              /\ task' = task
              /\ server_calls' = server_calls]_vars

\* C9: with simulation set, get_task makes no call to the referee box and parses
\* the hard-coded specification of the declared test type, for each of BNT, BMT,
\* BTT, CTT and PPT; with simulation not set it parses the string the referee box
\* returned.
C9_SimulationUsesHardcoded ==
    state = "get_task"
        => IF simulation
           THEN /\ server_calls = 0
                /\ outcome \in DeclaredOutcomes
                /\ test \in HardcodedTests
                /\ parsed_spec = HARDCODED_SPECS(test)
           ELSE parsed_spec = received

====
